---- MODULE Spec2Model ----
(***************************************************************************)
(* The EfficientIP SOLIDserver provider of external-dns                    *)
(* (provider/efficientip/efficientip.go): Zones, Records, DeleteChanges,   *)
(* CreateChanges and ApplyChanges, against an appliance that holds a zone  *)
(* list and a set of resource records.                                     *)
(*                                                                         *)
(* Every appliance call made through the sdsclient returns a reply         *)
(* [err, success, data]: err is "err.Error() # \"\"", success is the       *)
(* reply's GetSuccess().  The provider's own test of a failed list call is *)
(* err /\ ~success; the write calls test err alone.                        *)
(***************************************************************************)
EXTENDS Integers, Sequences, FiniteSets, TLC

VARIABLES
    domainFilter,   \* p.domainFilter: the zone names the filter accepts
    zoneIDFilter,   \* p.zoneIDFilter: the zone ids the filter accepts
    dryRun,         \* p.dryRun
    zoneData,       \* appliance: the zones, in the order the zone list returns them
    rrStore,        \* appliance: the resource records it holds
    op,             \* "idle", or the provider method that has just returned
    zoneReply,      \* the reply of the zone-list call of the last Zones/Records
    rrReplies,      \* the record-list replies of the last Records, in call order
    cuts,           \* Records: len(endpoints) at the end of each zone's iteration
    retZones,       \* Zones: the returned []*ZoneAuth
    retEndpoints,   \* Records: the returned []*endpoint.Endpoint
    retErr,         \* TRUE when the returned error is non-nil
    changes,        \* ApplyChanges: the plan.Changes it was given
    calls,          \* ApplyChanges: the delete/add calls it issued, in order
    rrBefore        \* ApplyChanges: the appliance's records when it was called

vars == <<domainFilter, zoneIDFilter, dryRun, zoneData, rrStore, op, zoneReply,
          rrReplies, cuts, retZones, retEndpoints, retErr, changes, calls, rrBefore>>

(***************************************************************************)
(* Bounds of the model.                                                    *)
(***************************************************************************)
MaxZones == 3
MaxRRs == 4
MaxWeight == 4

(***************************************************************************)
(* Integers.  endpoint.TTL is an int64, which is written here as           *)
(* hi * 2^16 + lo with 0 <= lo < 2^16, so that values beyond 32 bits can   *)
(* be told from their 32-bit truncation.                                   *)
(***************************************************************************)
TTL(n) == [hi |-> n \div 65536, lo |-> n % 65536]

TTLShift32(t) == [hi |-> t.hi + 65536, lo |-> t.lo]

ToInt32(t) ==
    LET h == t.hi % 65536
    IN  (IF h >= 32768 THEN h - 65536 ELSE h) * 65536 + t.lo

FitsInt32(t) == t.hi >= -32768 /\ t.hi <= 32767

Digits == <<"0", "1", "2", "3", "4", "5", "6", "7", "8", "9">>

DigitVal(c) == CHOOSE d \in 0..9 : Digits[d + 1] = c

IsDigit(c) == \E d \in 0..9 : Digits[d + 1] = c

RECURSIVE ParseDigits(_, _)
ParseDigits(s, acc) ==
    IF s = <<>> THEN acc ELSE ParseDigits(Tail(s), acc * 10 + DigitVal(Head(s)))

\* strconv.Atoi with the error dropped: 0 for a string that is no decimal number.
Atoi(s) ==
    LET signed == s # <<>> /\ Head(s) \in {"+", "-"}
        body == IF signed THEN Tail(s) ELSE s
    IN  IF body = <<>> \/ \E i \in 1..Len(body) : ~IsDigit(body[i])
        THEN 0
        ELSE IF signed /\ Head(s) = "-" THEN 0 - ParseDigits(body, 0)
             ELSE ParseDigits(body, 0)

RECURSIVE FormatDigits(_)
FormatDigits(n) ==
    IF n < 10 THEN <<Digits[n + 1]>>
    ELSE Append(FormatDigits(n \div 10), Digits[(n % 10) + 1])

\* The decimal text the appliance keeps for a record's TTL.
Itoa(n) == IF n < 0 THEN <<"-">> \o FormatDigits(0 - n) ELSE FormatDigits(n)

(***************************************************************************)
(* The appliance's replies to the two list calls.  A reply that is an      *)
(* error without the success flag carries no data; any other reply carries *)
(* what the appliance holds.                                               *)
(***************************************************************************)
Reply(err, success, data) ==
    [err |-> err, success |-> success,
     data |-> IF err /\ ~success THEN <<>> ELSE data]

\* DnsZoneList(...).Execute(): the zones in the appliance's order.
DnsZoneList == {Reply(e, s, zoneData) : e \in BOOLEAN, s \in BOOLEAN}

\* The order "Orderby(rr_full_name)" sorts by.
NameRank(name) ==
    CASE name = "g.a.org" -> 1
      [] name = "h.a.org" -> 2
      [] name = "t.a.org" -> 3
      [] OTHER -> 4

RRData(r) ==
    [rr_full_name |-> r.rr_full_name, rr_type |-> r.rr_type,
     rr_ttl |-> r.rr_ttl, rr_all_value |-> r.rr_all_value]

\* Every order of the records of zone id that is sorted by full name; records
\* of one name come in an order the appliance chooses.
Listings(id) ==
    LET rs == {RRData(r) : r \in {x \in rrStore : x.zone_id = id}}
        n == Cardinality(rs)
    IN  {l \in [1..n -> rs] :
            /\ \A i, j \in 1..n : i # j => l[i] # l[j]
            /\ \A i \in 1..n : \A j \in 1..n :
                  i < j => NameRank(l[i].rr_full_name) <= NameRank(l[j].rr_full_name)}

\* DnsRrList(...).Where("zone_id=" + id).Orderby("rr_full_name").Execute()
DnsRrList(id) ==
    {[zone_id |-> id] @@ Reply(e, s, l) :
        e \in BOOLEAN, s \in BOOLEAN, l \in Listings(id)}

(***************************************************************************)
(* Zones                                                                   *)
(***************************************************************************)
\* endpoint.DomainFilter.Match / provider.ZoneIDFilter.Match
DomainFilterMatch(name) == name \in domainFilter

ZoneIDFilterMatch(id) == id \in zoneIDFilter

NewZoneAuth(zone) ==
    [Name |-> zone.zone_name, Type |-> zone.zone_type, ID |-> zone.zone_id]

\* The test with the negation of GetSuccess() left out.
ZoneListFailedNoNegation(reply) == reply.err /\ reply.success

\* "err.Error() != "" && !zones.GetSuccess()"
ZoneListFailed(reply) == reply.err /\ ~reply.success

\* Zones with the zone-id test turned round: it drops the zones the filter accepts.
RECURSIVE ZonesLoopInverted(_, _)
ZonesLoopInverted(data, result) ==
    IF data = <<>> THEN result
    ELSE LET zone == Head(data)
         IN  IF ~DomainFilterMatch(zone.zone_name)
             THEN ZonesLoopInverted(Tail(data), result)
             ELSE IF ZoneIDFilterMatch(zone.zone_id)
             THEN ZonesLoopInverted(Tail(data), result)
             ELSE ZonesLoopInverted(Tail(data), Append(result, NewZoneAuth(zone)))

RECURSIVE ZonesLoop(_, _)
ZonesLoop(data, result) ==
    IF data = <<>> THEN result
    ELSE LET zone == Head(data)
         IN  IF ~DomainFilterMatch(zone.zone_name) THEN ZonesLoop(Tail(data), result)
             ELSE IF ~ZoneIDFilterMatch(zone.zone_id) THEN ZonesLoop(Tail(data), result)
             ELSE ZonesLoop(Tail(data), Append(result, NewZoneAuth(zone)))

\* Zones, given the reply of its zone-list call: [zones, err].
ZonesResult(reply) ==
    IF ZoneListFailed(reply) THEN [zones |-> <<>>, err |-> TRUE]
    ELSE [zones |-> ZonesLoop(reply.data, <<>>), err |-> FALSE]

(***************************************************************************)
(* Records                                                                 *)
(***************************************************************************)
\* endpoint.NewEndpointWithTTL(dnsName, recordType, ttl, target)
NewEndpointWithTTL(dnsName, recordType, ttl, target) ==
    [DNSName |-> dnsName, RecordType |-> recordType, RecordTTL |-> ttl,
     Targets |-> <<target>>]

HostKey(rr) == rr.rr_full_name \o ":" \o rr.rr_type

\* The loop's step with a found "A" entry replaced instead of appended to.
RecordStepOverwrite(st, rr) ==
    LET ttl == TTL(Atoi(rr.rr_ttl))
        key == HostKey(rr)
        new == NewEndpointWithTTL(rr.rr_full_name, rr.rr_type, ttl, rr.rr_all_value)
    IN  IF rr.rr_type = "A"
        THEN IF key \in DOMAIN st.Host
             THEN [st EXCEPT !.Host[key] = new]
             ELSE [st EXCEPT !.Host = @ @@ (key :> new)]
        ELSE [st EXCEPT !.endpoints = Append(@, new)]

\* One iteration of the loop over a zone's records; st is [endpoints, Host].
RecordStep(st, rr) ==
    LET ttl == TTL(Atoi(rr.rr_ttl))
        key == HostKey(rr)
    IN  IF rr.rr_type = "A"
        THEN IF key \in DOMAIN st.Host
             THEN [st EXCEPT !.Host[key].Targets = Append(@, rr.rr_all_value)]
             ELSE [st EXCEPT !.Host = @ @@ (key :> NewEndpointWithTTL(
                        rr.rr_full_name, "A", ttl, rr.rr_all_value))]
        ELSE IF rr.rr_type = "TXT"
        THEN [st EXCEPT !.endpoints = Append(@, NewEndpointWithTTL(
                        rr.rr_full_name, "TXT", ttl, rr.rr_all_value))]
        ELSE [st EXCEPT !.endpoints = Append(@, NewEndpointWithTTL(
                        rr.rr_full_name, rr.rr_type, ttl, rr.rr_all_value))]

RECURSIVE RecordLoop(_, _)
RecordLoop(st, data) ==
    IF data = <<>> THEN st ELSE RecordLoop(RecordStep(st, Head(data)), Tail(data))

\* "for _, rr := range Host": a Go map is ranged over in any order.
RangeOrders(Host) ==
    LET n == Cardinality(DOMAIN Host)
    IN  {o \in [1..n -> DOMAIN Host] : \A i, j \in 1..n : i # j => o[i] # o[j]}

RECURSIVE Flush(_, _, _)
Flush(endpoints, Host, order) ==
    IF order = <<>> THEN endpoints
    ELSE Flush(Append(endpoints, Host[Head(order)]), Host, Tail(order))

EmptyHost == [k \in {} |-> {}]

\* A zone's endpoints appended to an empty list instead of to the result so far.
ZoneEndpointsDropEarlier(endpoints, data) ==
    LET st == RecordLoop([endpoints |-> <<>>, Host |-> EmptyHost], data)
    IN  {Flush(st.endpoints, st.Host, o) : o \in RangeOrders(st.Host)}

\* The endpoints after one zone, for every order the map can be ranged in.
ZoneEndpoints(endpoints, data) ==
    LET st == RecordLoop([endpoints |-> endpoints, Host |-> EmptyHost], data)
    IN  {Flush(st.endpoints, st.Host, o) : o \in RangeOrders(st.Host)}

\* "err.Error() != "" && !records.GetSuccess()"
RRListFailed(reply) == reply.err /\ ~reply.success

\* The loop over the zones going on to the next zone after a failed fetch.
RECURSIVE RecordsLoopSkip(_, _, _, _)
RecordsLoopSkip(zones, endpoints, replies, lens) ==
    IF zones = <<>>
    THEN {[endpoints |-> endpoints, err |-> FALSE, replies |-> replies, cuts |-> lens]}
    ELSE UNION {
           IF RRListFailed(r)
           THEN RecordsLoopSkip(Tail(zones), endpoints, Append(replies, r),
                                Append(lens, Len(endpoints)))
           ELSE UNION {RecordsLoopSkip(Tail(zones), e, Append(replies, r),
                                       Append(lens, Len(e)))
                         : e \in ZoneEndpoints(endpoints, r.data)}
           : r \in DnsRrList(Head(zones).ID)}

\* The loop over the zones: every run [endpoints, err, replies, cuts] it can make.
RECURSIVE RecordsLoop(_, _, _, _)
RecordsLoop(zones, endpoints, replies, lens) ==
    IF zones = <<>>
    THEN {[endpoints |-> endpoints, err |-> FALSE, replies |-> replies, cuts |-> lens]}
    ELSE UNION {
           IF RRListFailed(r)
           THEN {[endpoints |-> <<>>, err |-> TRUE,
                  replies |-> Append(replies, r), cuts |-> lens]}
           ELSE UNION {RecordsLoop(Tail(zones), e, Append(replies, r),
                                   Append(lens, Len(e)))
                         : e \in ZoneEndpoints(endpoints, r.data)}
           : r \in DnsRrList(Head(zones).ID)}

\* Records, given the reply of the zone-list call of its call of Zones.
RecordsResults(reply) ==
    LET z == ZonesResult(reply)
    IN  IF z.err
        THEN {[endpoints |-> <<>>, err |-> TRUE, replies |-> <<>>, cuts |-> <<>>]}
        ELSE RecordsLoop(z.zones, <<>>, <<>>, <<>>)

(***************************************************************************)
(* The appliance's two write calls.  A call that succeeds acts on the      *)
(* records; a call that fails leaves them as they are.                     *)
(***************************************************************************)
\* The zone the appliance files a new record of this name under.
HomeZone(name) == IF name = "h.a.org" THEN "1" ELSE "3"

SameRR(r, name, type, value) ==
    r.rr_full_name = name /\ r.rr_type = type /\ r.rr_all_value = value

\* DnsRrDelete(...).RrName(name).RrType(type).RrValue1(value).Execute()
DnsRrDelete(store, name, type, value, ok) ==
    IF ok THEN {r \in store : ~SameRR(r, name, type, value)} ELSE store

\* DnsRrAdd(...).DnsRrAddInput({RrName, RrType, RrTtl, RrValue1}).Execute()
DnsRrAdd(store, name, type, ttl, value, ok) ==
    IF ok
    THEN {r \in store : ~(r.zone_id = HomeZone(name) /\ SameRR(r, name, type, value))}
         \cup {[zone_id |-> HomeZone(name), rr_full_name |-> name, rr_type |-> type,
                rr_ttl |-> Itoa(ttl), rr_all_value |-> value]}
    ELSE store

(***************************************************************************)
(* DeleteChanges, CreateChanges, ApplyChanges.  A run is [store, calls,    *)
(* err]: the appliance's records, the calls issued so far, and whether a   *)
(* non-nil error has been returned.                                        *)
(***************************************************************************)
DeleteCall(ep, value, ok) ==
    [kind |-> "delete", rr_name |-> ep.DNSName, rr_type |-> ep.RecordType,
     rr_value1 |-> value, ok |-> ok]

AddCall(ep, ttl, value, ok) ==
    [kind |-> "add", rr_name |-> ep.DNSName, rr_type |-> ep.RecordType,
     rr_ttl |-> ttl, rr_value1 |-> value, ok |-> ok]

\* One iteration of DeleteChanges' loop over the targets.
DeleteTarget(run, ep, value) ==
    IF dryRun THEN {run}
    ELSE {[run EXCEPT
             !.store = DnsRrDelete(@, ep.DNSName, ep.RecordType, value, ok),
             !.calls = Append(@, DeleteCall(ep, value, ok))]
            : ok \in BOOLEAN}

\* CreateChanges' step without the dry-run test.
CreateTargetAlways(run, ep, value) ==
    LET ttl == ToInt32(ep.RecordTTL)
    IN  {[run EXCEPT
            !.store = DnsRrAdd(@, ep.DNSName, ep.RecordType, ttl, value, ok),
            !.calls = Append(@, AddCall(ep, ttl, value, ok))]
           : ok \in BOOLEAN}

\* One iteration of CreateChanges' loop over the targets.
CreateTarget(run, ep, value) ==
    IF dryRun THEN {run}
    ELSE LET ttl == ToInt32(ep.RecordTTL)
         IN  {[run EXCEPT
                 !.store = DnsRrAdd(@, ep.DNSName, ep.RecordType, ttl, value, ok),
                 !.calls = Append(@, AddCall(ep, ttl, value, ok))]
                : ok \in BOOLEAN}

RECURSIVE DeleteLoop(_, _, _)
DeleteLoop(run, ep, targets) ==
    IF targets = <<>> THEN {run}
    ELSE UNION {DeleteLoop(r, ep, Tail(targets)) : r \in DeleteTarget(run, ep, Head(targets))}

RECURSIVE CreateLoop(_, _, _)
CreateLoop(run, ep, targets) ==
    IF targets = <<>> THEN {run}
    ELSE UNION {CreateLoop(r, ep, Tail(targets)) : r \in CreateTarget(run, ep, Head(targets))}

\* DeleteChanges returning an error when one of its calls failed.
DeleteChangesPropagate(run, ep) ==
    {[r EXCEPT !.err = \E i \in (Len(run.calls) + 1)..Len(r.calls) : ~r.calls[i].ok]
       : r \in DeleteLoop(run, ep, ep.Targets)}

\* Both return nil whatever the calls answered.
DeleteChanges(run, ep) == {[r EXCEPT !.err = FALSE] : r \in DeleteLoop(run, ep, ep.Targets)}

CreateChanges(run, ep) == {[r EXCEPT !.err = FALSE] : r \in CreateLoop(run, ep, ep.Targets)}

\* One of ApplyChanges' four loops; "if err != nil { return err }" ends the run.
RECURSIVE ChangeLoop(_, _, _)
ChangeLoop(run, list, deleting) ==
    IF run.err \/ list = <<>> THEN {run}
    ELSE UNION {ChangeLoop(r, Tail(list), deleting)
                  : r \in IF deleting THEN DeleteChanges(run, Head(list))
                                      ELSE CreateChanges(run, Head(list))}

ThenLoop(runs, list, deleting) == UNION {ChangeLoop(r, list, deleting) : r \in runs}

\* ApplyChanges with the UpdateNew loop before the UpdateOld loop.
ApplyChangesRunsNewFirst(store, ch) ==
    LET d == ChangeLoop([store |-> store, calls |-> <<>>, err |-> FALSE], ch.Delete, TRUE)
        n == ThenLoop(d, ch.UpdateNew, FALSE)
        o == ThenLoop(n, ch.UpdateOld, TRUE)
    IN  ThenLoop(o, ch.Create, FALSE)

\* ApplyChanges with the Create loop first.
ApplyChangesRunsCreateFirst(store, ch) ==
    LET c == ChangeLoop([store |-> store, calls |-> <<>>, err |-> FALSE], ch.Create, FALSE)
        d == ThenLoop(c, ch.Delete, TRUE)
        o == ThenLoop(d, ch.UpdateOld, TRUE)
    IN  ThenLoop(o, ch.UpdateNew, FALSE)

\* ApplyChanges: every run it can make from the appliance's records.
ApplyChangesRuns(store, ch) ==
    LET d == ChangeLoop([store |-> store, calls |-> <<>>, err |-> FALSE], ch.Delete, TRUE)
        o == ThenLoop(d, ch.UpdateOld, TRUE)
        n == ThenLoop(o, ch.UpdateNew, FALSE)
    IN  ThenLoop(n, ch.Create, FALSE)

(***************************************************************************)
(* The data the provider is run on.                                        *)
(***************************************************************************)
Zone(name, type, id) == [zone_name |-> name, zone_type |-> type, zone_id |-> id]

ZoneUniverse ==
    {Zone("a.org", "master", "1"), Zone("b.org", "master", "2"),
     Zone("a.org", "slave", "3")}

\* The zone lists of at most MaxZones zones, in every order.
ZoneLists ==
    UNION {{l \in [1..n -> ZoneUniverse] : \A i, j \in 1..n : i # j => l[i] # l[j]}
             : n \in 0..MaxZones}

RR(id, name, type, ttl, value) ==
    [zone_id |-> id, rr_full_name |-> name, rr_type |-> type, rr_ttl |-> ttl,
     rr_all_value |-> value]

RRUniverse ==
    {RR("1", "h.a.org", "A", <<"3", "0", "0">>, "10.0.0.1"),
     RR("1", "h.a.org", "A", <<"6", "0">>, "10.0.0.2"),
     RR("1", "g.a.org", "A", <<"3", "0", "0">>, "10.0.0.1"),
     RR("1", "t.a.org", "TXT", <<"3", "0", "0">>, "10.0.0.1"),
     RR("1", "t.a.org", "TXT", <<"6", "0">>, "10.0.0.2"),
     RR("1", "g.a.org", "CNAME", <<>>, "10.0.0.1"),
     RR("3", "h.a.org", "A", <<"6", "0">>, "10.0.0.1")}

RRSets == {s \in SUBSET RRUniverse : Cardinality(s) <= MaxRRs}

Endpoint(name, type, ttl, targets) ==
    [DNSName |-> name, RecordType |-> type, RecordTTL |-> ttl, Targets |-> targets]

\* The endpoints of the plans; the TXT one has a TTL of 2^32 + 60.
Endpoints ==
    {Endpoint("h.a.org", "A", TTL(300), <<>>),
     Endpoint("h.a.org", "A", TTL(300), <<"10.0.0.1">>),
     Endpoint("h.a.org", "A", TTL(300), <<"10.0.0.1", "10.0.0.2">>),
     Endpoint("g.a.org", "TXT", TTLShift32(TTL(60)), <<"10.0.0.2", "10.0.0.1">>)}

Weight(ep) == IF ep.Targets = <<>> THEN 1 ELSE Len(ep.Targets)

RECURSIVE ListWeight(_)
ListWeight(list) == IF list = <<>> THEN 0 ELSE Weight(Head(list)) + ListWeight(Tail(list))

\* The endpoint lists of weight at most w.
RECURSIVE EndpointLists(_)
EndpointLists(w) ==
    {<<>>} \cup UNION {{<<e>> \o l : l \in EndpointLists(w - Weight(e))}
                         : e \in {x \in Endpoints : Weight(x) <= w}}

Changes(d, o, n, c) == [Delete |-> d, UpdateOld |-> o, UpdateNew |-> n, Create |-> c]

\* The plans whose four lists weigh at most MaxWeight together.
Plans ==
    UNION {UNION {UNION {{Changes(d, o, n, c)
        : c \in EndpointLists(MaxWeight - ListWeight(d) - ListWeight(o) - ListWeight(n))}
        : n \in EndpointLists(MaxWeight - ListWeight(d) - ListWeight(o))}
        : o \in EndpointLists(MaxWeight - ListWeight(d))}
        : d \in EndpointLists(MaxWeight)}

PlanRRs ==
    {RR("1", "h.a.org", "A", <<"3", "0", "0">>, "10.0.0.1"),
     RR("1", "h.a.org", "A", <<"3", "0", "0">>, "10.0.0.2"),
     RR("3", "g.a.org", "TXT", <<"6", "0">>, "10.0.0.1"),
     RR("3", "g.a.org", "TXT", <<"6", "0">>, "10.0.0.2")}

(***************************************************************************)
(* The state machine.  The controller calls one method at a time (op is    *)
(* "idle" between calls); what a call returned is kept until Return.       *)
(***************************************************************************)
NoReply == [err |-> FALSE, success |-> FALSE, data |-> <<>>]

NoChanges == Changes(<<>>, <<>>, <<>>, <<>>)

Idle ==
    /\ op = "idle"
    /\ zoneReply = NoReply
    /\ rrReplies = <<>>
    /\ cuts = <<>>
    /\ retZones = <<>>
    /\ retEndpoints = <<>>
    /\ retErr = FALSE
    /\ changes = NoChanges
    /\ calls = <<>>
    /\ rrBefore = {}

\* The whole provider, on a small appliance.
Init ==
    /\ domainFilter = {"a.org"}
    /\ zoneIDFilter = {"1", "2"}
    /\ dryRun \in BOOLEAN
    /\ zoneData = <<Zone("a.org", "master", "1"), Zone("b.org", "master", "2"),
                    Zone("a.org", "slave", "3")>>
    /\ rrStore \in {{}, PlanRRs}
    /\ Idle

\* The read path, on every small appliance.
InitRead ==
    /\ domainFilter \in {{"a.org", "b.org"}, {"a.org"}}
    /\ zoneIDFilter \in {{"1", "2", "3"}, {"1", "2"}}
    /\ dryRun = FALSE
    /\ zoneData \in ZoneLists
    /\ rrStore \in RRSets
    /\ Idle

Zones ==
    /\ op = "idle"
    /\ \E reply \in DnsZoneList :
         LET z == ZonesResult(reply)
         IN  /\ zoneReply' = reply
             /\ retZones' = z.zones
             /\ retErr' = z.err
    /\ op' = "Zones"
    /\ UNCHANGED <<domainFilter, zoneIDFilter, dryRun, zoneData, rrStore, rrReplies,
                   cuts, retEndpoints, changes, calls, rrBefore>>

Records ==
    /\ op = "idle"
    /\ \E reply \in DnsZoneList :
         \E r \in RecordsResults(reply) :
             /\ zoneReply' = reply
             /\ rrReplies' = r.replies
             /\ cuts' = r.cuts
             /\ retEndpoints' = r.endpoints
             /\ retErr' = r.err
    /\ op' = "Records"
    /\ UNCHANGED <<domainFilter, zoneIDFilter, dryRun, zoneData, rrStore, retZones,
                   changes, calls, rrBefore>>

ApplyChanges ==
    /\ op = "idle"
    /\ \E ch \in Plans :
         \E run \in ApplyChangesRuns(rrStore, ch) :
             /\ changes' = ch
             /\ calls' = run.calls
             /\ rrStore' = run.store
             /\ retErr' = run.err
    /\ rrBefore' = rrStore
    /\ op' = "ApplyChanges"
    /\ UNCHANGED <<domainFilter, zoneIDFilter, dryRun, zoneData, zoneReply, rrReplies,
                   cuts, retZones, retEndpoints>>

\* The method's result goes to the controller; the provider keeps none of it.
Return ==
    /\ op # "idle"
    /\ op' = "idle"
    /\ zoneReply' = NoReply
    /\ rrReplies' = <<>>
    /\ cuts' = <<>>
    /\ retZones' = <<>>
    /\ retEndpoints' = <<>>
    /\ retErr' = FALSE
    /\ changes' = NoChanges
    /\ calls' = <<>>
    /\ rrBefore' = {}
    /\ UNCHANGED <<domainFilter, zoneIDFilter, dryRun, zoneData, rrStore>>

Next == Zones \/ Records \/ ApplyChanges \/ Return

NextRead == Zones \/ Records \/ Return

Spec == Init /\ [][Next]_vars

SpecRead == InitRead /\ [][NextRead]_vars

(***************************************************************************)
(* What the claims about ApplyChanges speak of.                            *)
(***************************************************************************)
\* <<kind, name, type, value>> for each target of each endpoint of a list,
\* endpoints in list order and targets in target-list order.
RECURSIVE PhaseCalls(_, _)
PhaseCalls(list, kind) ==
    IF list = <<>> THEN <<>>
    ELSE LET ep == Head(list)
         IN  [i \in 1..Len(ep.Targets) |->
                 <<kind, ep.DNSName, ep.RecordType, ep.Targets[i]>>]
             \o PhaseCalls(Tail(list), kind)

\* The four phases of a plan, one after the other.
PlannedCalls(ch) ==
    PhaseCalls(ch.Delete, "delete") \o PhaseCalls(ch.UpdateOld, "delete")
        \o PhaseCalls(ch.UpdateNew, "add") \o PhaseCalls(ch.Create, "add")

IssuedCalls ==
    [i \in 1..Len(calls) |->
        <<calls[i].kind, calls[i].rr_name, calls[i].rr_type, calls[i].rr_value1>>]

\* The TTL of the endpoint of each target of a list, in the same order.
RECURSIVE PhaseTTLs(_)
PhaseTTLs(list) ==
    IF list = <<>> THEN <<>>
    ELSE [i \in 1..Len(Head(list).Targets) |-> Head(list).RecordTTL]
         \o PhaseTTLs(Tail(list))

RECURSIVE TargetCount(_)
TargetCount(list) ==
    IF list = <<>> THEN 0 ELSE Len(Head(list).Targets) + TargetCount(Tail(list))

\* The <<name, type, value>> of the targets of a list's endpoints.
Wanted(list) ==
    UNION {{<<list[i].DNSName, list[i].RecordType, list[i].Targets[j]>>
              : j \in 1..Len(list[i].Targets)} : i \in 1..Len(list)}

Holds(store, k) == \E r \in store : SameRR(r, k[1], k[2], k[3])

Applied == op = "ApplyChanges"

AllCallsSucceeded == \A i \in 1..Len(calls) : calls[i].ok

\* C1: with dry-run off, the calls ApplyChanges issued are the delete calls of
\* Delete, then the delete calls of UpdateOld, then the add calls of UpdateNew,
\* then the add calls of Create, endpoints in list order and targets in
\* target-list order; no add call comes before a delete call.
C1_FourPhases ==
    (Applied /\ ~dryRun) =>
        /\ IssuedCalls = PlannedCalls(changes)
        /\ \A i \in 1..Len(calls) : \A j \in 1..Len(calls) :
              (calls[i].kind = "add" /\ calls[j].kind = "delete") => j < i

C1_Witness ==
    /\ Applied /\ ~dryRun
    /\ changes.Delete # <<>> /\ changes.UpdateOld # <<>>
    /\ changes.UpdateNew # <<>> /\ changes.Create # <<>>
    /\ Len(calls) = 4
    /\ calls[2].kind = "delete" /\ calls[3].kind = "add"

\* C2: whatever each call answered, ApplyChanges returned nil and issued the
\* call of every target of every endpoint of every list: a failed call is
\* followed by the calls the plan orders after it.
C2_BestEffort ==
    Applied =>
        /\ retErr = FALSE
        /\ ~dryRun => Len(calls) = Len(PlannedCalls(changes))
        /\ ~dryRun => \A i \in 1..Len(calls) :
              ~calls[i].ok => \A j \in (i + 1)..Len(PlannedCalls(changes)) :
                  j <= Len(calls) /\ IssuedCalls[j] = PlannedCalls(changes)[j]

C2_Witness ==
    /\ Applied /\ ~dryRun /\ retErr = FALSE
    /\ Len(changes.Delete) = 2
    /\ Len(changes.Delete[1].Targets) = 2
    /\ changes.Create # <<>>
    /\ Len(calls) = 4
    /\ ~calls[1].ok /\ calls[2].ok /\ ~calls[3].ok /\ calls[4].kind = "add"

\* C3: with dry-run on, ApplyChanges issued no call, left the appliance's
\* records as they were and returned nil.
C3_DryRun ==
    (Applied /\ dryRun) =>
        /\ calls = <<>>
        /\ rrStore = rrBefore
        /\ retErr = FALSE

C3_Witness ==
    /\ Applied /\ dryRun
    /\ TargetCount(changes.Delete) > 0 /\ TargetCount(changes.Create) > 0
    /\ rrBefore # {}
    /\ \E k \in Wanted(changes.Delete) : Holds(rrStore, k)

\* C4: with dry-run off, the calls are one per target -- as many as the four
\* lists have targets -- each with its endpoint's name and type and that
\* target, and each add call with its endpoint's TTL.
C4_OneCallPerTarget ==
    (Applied /\ ~dryRun) =>
        /\ Len(calls) = TargetCount(changes.Delete) + TargetCount(changes.UpdateOld)
                        + TargetCount(changes.UpdateNew) + TargetCount(changes.Create)
        /\ IssuedCalls = PlannedCalls(changes)
        /\ LET dels == TargetCount(changes.Delete) + TargetCount(changes.UpdateOld)
               ttls == PhaseTTLs(changes.UpdateNew) \o PhaseTTLs(changes.Create)
           IN  \A i \in 1..Len(ttls) :
                  dels + i <= Len(calls) /\ TTL(calls[dels + i].rr_ttl) = ttls[i]

\* C4, for the endpoints whose TTL is a 32-bit number: the same, and it holds.
C4_WithinInt32 ==
    (Applied /\ ~dryRun) =>
        /\ Len(calls) = TargetCount(changes.Delete) + TargetCount(changes.UpdateOld)
                        + TargetCount(changes.UpdateNew) + TargetCount(changes.Create)
        /\ IssuedCalls = PlannedCalls(changes)
        /\ LET dels == TargetCount(changes.Delete) + TargetCount(changes.UpdateOld)
               ttls == PhaseTTLs(changes.UpdateNew) \o PhaseTTLs(changes.Create)
           IN  \A i \in 1..Len(ttls) :
                  /\ dels + i <= Len(calls)
                  /\ FitsInt32(ttls[i]) => TTL(calls[dels + i].rr_ttl) = ttls[i]

\* C10, after ApplyChanges: with dry-run off and every call answered with
\* success, the appliance holds a record for every target of UpdateNew and
\* Create (also one that Delete or UpdateOld names), and none for a target of
\* Delete or UpdateOld that UpdateNew and Create do not name.
C10_AfterApply ==
    (Applied /\ ~dryRun /\ AllCallsSucceeded) =>
        LET new == Wanted(changes.UpdateNew) \cup Wanted(changes.Create)
            old == Wanted(changes.Delete) \cup Wanted(changes.UpdateOld)
        IN  /\ \A k \in new : Holds(rrStore, k)
            /\ \A k \in old \ new : ~Holds(rrStore, k)

C10_Witness ==
    /\ Applied /\ ~dryRun /\ AllCallsSucceeded
    /\ \E k \in Wanted(changes.Delete) \cap Wanted(changes.Create) :
          Holds(rrBefore, k) /\ Holds(rrStore, k)
    /\ \E k \in Wanted(changes.Delete) \ Wanted(changes.Create) :
          Holds(rrBefore, k) /\ ~Holds(rrStore, k)

(***************************************************************************)
(* What the claims about Zones and Records speak of.                       *)
(***************************************************************************)
ReportsFailure(reply) == reply.err /\ ~reply.success

Passes(zone) == DomainFilterMatch(zone.zone_name) /\ ZoneIDFilterMatch(zone.zone_id)

\* The zones of the zone-list reply that pass both filters, in its order.
Kept == SelectSeq(zoneReply.data, Passes)

\* The number a record's TTL text stands for.
TTLOfText(text) ==
    CASE text = <<"3", "0", "0">> -> 300
      [] text = <<"6", "0">> -> 60
      [] OTHER -> 0

\* The records Records fetched for its k-th zone, in server order, and the
\* endpoints it appended while it was at that zone.
Fetched(k) == rrReplies[k].data

Block(k) == SubSeq(retEndpoints, (IF k = 1 THEN 0 ELSE cuts[k - 1]) + 1, cuts[k])

SameNameA(data, name) ==
    SelectSeq(data, LAMBDA r : r.rr_type = "A" /\ r.rr_full_name = name)

RECURSIVE SumTargets(_)
SumTargets(eps) == IF eps = <<>> THEN 0 ELSE Len(Head(eps).Targets) + SumTargets(Tail(eps))

\* The places <<endpoint, target>> of a block where a record shows.
Places(blk, rr) ==
    UNION {{<<j, m>> : m \in {x \in 1..Len(blk[j].Targets) :
                                /\ blk[j].DNSName = rr.rr_full_name
                                /\ blk[j].RecordType = rr.rr_type
                                /\ blk[j].Targets[x] = rr.rr_all_value}}
             : j \in 1..Len(blk)}

Read == op = "Records" /\ ~retErr

\* C5: when the zone-list call did not fail, Zones returned nil and one
\* ZoneAuth {name, type, id} for each zone of the reply that passes the domain
\* filter and the zone-id filter, in the reply's order (none, if none passes).
C5_ZonesFiltered ==
    (op = "Zones" /\ ~ReportsFailure(zoneReply)) =>
        /\ retErr = FALSE
        /\ retZones = [i \in 1..Len(Kept) |->
                          [Name |-> Kept[i].zone_name, Type |-> Kept[i].zone_type,
                           ID |-> Kept[i].zone_id]]

C5_Witness ==
    /\ op = "Zones" /\ ~ReportsFailure(zoneReply)
    /\ Len(zoneReply.data) = 3
    /\ ~DomainFilterMatch(zoneReply.data[1].zone_name)
    /\ DomainFilterMatch(zoneReply.data[2].zone_name)
    /\ ~ZoneIDFilterMatch(zoneReply.data[2].zone_id)
    /\ Passes(zoneReply.data[3])
    /\ Len(retZones) = 1

\* C6: in a successful Records, for each zone the "A" records of one full name
\* are one endpoint, with the TTL of the first of them in server order and
\* their values in server order as its targets; each record of another type
\* is one endpoint of its own with the record's name, type, TTL and value.
C6_MergeA ==
    Read => \A k \in 1..Len(rrReplies) :
        LET data == Fetched(k)
            blk == Block(k)
        IN  \A i \in 1..Len(data) :
              IF data[i].rr_type = "A"
              THEN LET same == SameNameA(data, data[i].rr_full_name)
                   IN  \E j \in 1..Len(blk) :
                         /\ blk[j] = [DNSName |-> data[i].rr_full_name,
                                      RecordType |-> "A",
                                      RecordTTL |-> TTL(TTLOfText(same[1].rr_ttl)),
                                      Targets |-> [m \in 1..Len(same) |->
                                                      same[m].rr_all_value]]
                         /\ \A h \in 1..Len(blk) :
                               (blk[h].DNSName = data[i].rr_full_name
                                  /\ blk[h].RecordType = "A") => h = j
              ELSE Cardinality({j \in 1..Len(blk) :
                        blk[j] = [DNSName |-> data[i].rr_full_name,
                                  RecordType |-> data[i].rr_type,
                                  RecordTTL |-> TTL(TTLOfText(data[i].rr_ttl)),
                                  Targets |-> <<data[i].rr_all_value>>]}) = 1

C6_Witness ==
    /\ Read
    /\ Len(rrReplies) >= 1
    /\ Len(Fetched(1)) = 4
    /\ Fetched(1)[1].rr_type = "A" /\ Fetched(1)[2].rr_type = "A"
    /\ Fetched(1)[1].rr_full_name = Fetched(1)[2].rr_full_name
    /\ Fetched(1)[1].rr_ttl = <<"6", "0">> /\ Fetched(1)[2].rr_ttl = <<"3", "0", "0">>
    /\ Fetched(1)[3].rr_type = "TXT" /\ Fetched(1)[4].rr_type = "TXT"
    /\ Fetched(1)[3].rr_full_name = Fetched(1)[4].rr_full_name
    /\ Len(Block(1)) = 3

\* C7: when the zone-list call reports failure, Zones returned an error and no
\* zone, and Records returned an error and no endpoint and made no
\* record-list call.
C7_ZoneListFailure ==
    ReportsFailure(zoneReply) =>
        /\ op = "Zones" => (retErr /\ retZones = <<>>)
        /\ op = "Records" => (retErr /\ retEndpoints = <<>> /\ rrReplies = <<>>)

C7_Witness ==
    /\ op = "Records" /\ ReportsFailure(zoneReply)
    /\ \E i \in 1..Len(zoneData) :
          Passes(zoneData[i]) /\ \E r \in rrStore : r.zone_id = zoneData[i].zone_id

\* C8: when a record-list call reports failure, Records returned an error and
\* no endpoint, and that call was its last.
C8_RecordListFailure ==
    op = "Records" => \A k \in 1..Len(rrReplies) :
        ReportsFailure(rrReplies[k]) =>
            /\ retErr
            /\ retEndpoints = <<>>
            /\ k = Len(rrReplies)

C8_Witness ==
    /\ op = "Records" /\ retErr
    /\ Len(Kept) = 3
    /\ Len(rrReplies) = 2
    /\ Fetched(1) # <<>>
    /\ ReportsFailure(rrReplies[2])

\* C9: in a successful Records the result is one run of endpoints per fetched
\* zone, in fetch order; each fetched record shows at exactly one place of its
\* zone's run, as one target of an endpoint of its name and type, and the run
\* has as many targets as the zone has records.
C9_NoLossNoDuplicate ==
    Read =>
        /\ Len(cuts) = Len(rrReplies)
        /\ \A k \in 1..Len(cuts) : (IF k = 1 THEN 0 ELSE cuts[k - 1]) <= cuts[k]
        /\ Len(retEndpoints) = (IF cuts = <<>> THEN 0 ELSE cuts[Len(cuts)])
        /\ \A k \in 1..Len(rrReplies) :
              /\ \A i \in 1..Len(Fetched(k)) :
                    Cardinality(Places(Block(k), Fetched(k)[i])) = 1
              /\ SumTargets(Block(k)) = Len(Fetched(k))

C9_Witness ==
    /\ Read
    /\ Len(rrReplies) = 2
    /\ \E i \in 1..Len(Fetched(1)) : \E j \in 1..Len(Fetched(2)) :
          /\ Fetched(1)[i].rr_type = "A" /\ Fetched(2)[j].rr_type = "A"
          /\ Fetched(1)[i].rr_full_name = Fetched(2)[j].rr_full_name
          /\ Fetched(1)[i].rr_all_value = Fetched(2)[j].rr_all_value
    /\ Len(Fetched(1)) >= 2
    /\ Len(Block(1)) >= 1 /\ Len(Block(2)) = 1

\* C10, at the next Records: a successful Records reports the records the
\* appliance holds when it is called, for the zones that pass the filters.
C10_RecordsCurrent ==
    Read =>
        LET ids == {Kept[i].zone_id : i \in 1..Len(Kept)}
            shown == {r \in rrStore : r.zone_id \in ids}
        IN  /\ \A r \in shown : \E j \in 1..Len(retEndpoints) :
                  /\ retEndpoints[j].DNSName = r.rr_full_name
                  /\ retEndpoints[j].RecordType = r.rr_type
                  /\ \E m \in 1..Len(retEndpoints[j].Targets) :
                        retEndpoints[j].Targets[m] = r.rr_all_value
            /\ \A j \in 1..Len(retEndpoints) :
                  \A m \in 1..Len(retEndpoints[j].Targets) :
                      \E r \in shown : SameRR(r, retEndpoints[j].DNSName,
                          retEndpoints[j].RecordType, retEndpoints[j].Targets[m])

\* C10: with dry-run off and every call answered with success, ApplyChanges
\* leaves a record for every target of UpdateNew and Create and none for a
\* target only Delete or UpdateOld names; the Records that follows reports the
\* records the appliance then holds.
C10_AppliedThenRead == C10_AfterApply /\ C10_RecordsCurrent

\* A Records that reports records only an ApplyChanges can have left.
C10_ReadWitness ==
    /\ Read
    /\ rrStore # {} /\ rrStore # PlanRRs
    /\ \E r \in rrStore : r.zone_id = "1"
    /\ \E r \in rrStore : r.zone_id = "3"
    /\ retEndpoints # <<>>

====
